---- MODULE Spec2Model ----
(***************************************************************************)
(* SerpapiApp (src/src/universal_mcp_serpapi/app.py): the lazily cached    *)
(* API key, the three tool operations and search's classification of      *)
(* responses and exceptions.                                                *)
(*                                                                         *)
(* A Python str is a sequence of one-character strings, so that lower(),   *)
(* the "in" substring test, f-string formatting and join() are computed.   *)
(* An optional value (None or a value) is <<>> or <<v>>.                   *)
(***************************************************************************)
EXTENDS Integers, Sequences, FiniteSets, TLC

VARIABLES
    integration,        \* self.integration: the credential provider, or None
    _serpapi_api_key,   \* self._serpapi_api_key: the cached key, None until resolved
    resolveCalls,       \* history: reads of the serpapi_api_key property
    resolveFailed,      \* history: reads of the property that raised
    getCredCalls,       \* history: calls of integration.get_credentials()
    last,               \* history: the most recent operation, its inputs and its outcome
    source,             \* SpecConc: what the (stable) provider answers
    pc,                 \* SpecConc: each caller's position in the property getter
    local_api_key,      \* SpecConc: each caller's local api_key
    result              \* SpecConc: what each caller's read of the property gave

vars == <<integration, _serpapi_api_key, resolveCalls, resolveFailed, getCredCalls,
          last, source, pc, local_api_key, result>>

\* ------------------------------------------------------------------ bounds

\* Operations (reads of the key, searches, maps calls) in one behaviour of Spec.
MaxOps == 3
\* Entries of organic_results in a response.
MaxResults == 2
\* Searches in one behaviour of SpecSearch.
MaxSearches == 1
\* Reads of the key in one behaviour of SpecResolve.
MaxReads == 2
\* Concurrent callers of the property in SpecConc.
MaxCallers == 2

\* ------------------------------------------------------------ Python values

None == <<>>
Some(v) == <<v>>

\* str.lower() on the letters of ASCII.
LowerChar(c) ==
    CASE c = "A" -> "a" [] c = "B" -> "b" [] c = "C" -> "c" [] c = "D" -> "d"
      [] c = "E" -> "e" [] c = "F" -> "f" [] c = "G" -> "g" [] c = "H" -> "h"
      [] c = "I" -> "i" [] c = "J" -> "j" [] c = "K" -> "k" [] c = "L" -> "l"
      [] c = "M" -> "m" [] c = "N" -> "n" [] c = "O" -> "o" [] c = "P" -> "p"
      [] c = "Q" -> "q" [] c = "R" -> "r" [] c = "S" -> "s" [] c = "T" -> "t"
      [] c = "U" -> "u" [] c = "V" -> "v" [] c = "W" -> "w" [] c = "X" -> "x"
      [] c = "Y" -> "y" [] c = "Z" -> "z" [] OTHER -> c

Lower(s) == [i \in 1..Len(s) |-> LowerChar(s[i])]

\* keyword in s, for Python strs.
Contains(s, keyword) ==
    \E i \in 0..(Len(s) - Len(keyword)) : SubSeq(s, i + 1, i + Len(keyword)) = keyword

\* any(keyword in s for keyword in keywords)
AnyKeywordIn(keywords, s) == \E k \in DOMAIN keywords : Contains(s, keywords[k])

\* A join that puts the separator after every block instead of between blocks.
JoinTrailing(sep, blocks) ==
    IF blocks = <<>> THEN <<>>
    ELSE LET RECURSIVE Each(_)
             Each(bs) == IF bs = <<>> THEN <<>> ELSE bs[1] \o sep \o Each(Tail(bs))
         IN Each(blocks)

\* "\n".join(blocks)
RECURSIVE Join(_, _)
Join(sep, blocks) ==
    IF blocks = <<>> THEN <<>>
    ELSE IF Len(blocks) = 1 THEN blocks[1]
    ELSE blocks[1] \o sep \o Join(sep, Tail(blocks))

Digit(d) ==
    CASE d = 0 -> "0" [] d = 1 -> "1" [] d = 2 -> "2" [] d = 3 -> "3" [] d = 4 -> "4"
      [] d = 5 -> "5" [] d = 6 -> "6" [] d = 7 -> "7" [] d = 8 -> "8" [] d = 9 -> "9"

\* How an f-string formats a non-negative int.
RECURSIVE IntToText(_)
IntToText(n) == IF n < 10 THEN <<Digit(n)>> ELSE IntToText(n \div 10) \o <<Digit(n % 10)>>

\* d.get(name): None when the key is absent.
Get(d, name) == IF name \in DOMAIN d THEN Some(d[name]) ELSE None

\* d.get(name, default)
GetOr(d, name, default) == IF name \in DOMAIN d THEN d[name] ELSE default

\* bool(v) of an optional str: None and "" are falsy.
Truthy(o) == o # None /\ o[1] # <<>>

\* a or b
Or(a, b) == IF Truthy(a) THEN a ELSE b

\* {}
EmptyDict == [name \in {} |-> <<>>]

\* {**base, **over}
Merge(base, over) ==
    [name \in DOMAIN base \cup DOMAIN over |->
        IF name \in DOMAIN over THEN over[name] ELSE base[name]]

\* How a call ends: it returns a value or raises an exception with a message.
Return(v) == [kind |-> "return", type |-> "", value |-> v]
Raise(type, message) == [kind |-> "raise", type |-> type, value |-> message]
NotAuthorizedError(message) == Raise("NotAuthorizedError", message)

\* ------------------------------------------------- the credential provider

\* integration: None, or a provider.
NoIntegration == [present |-> FALSE]
Integrations == {NoIntegration, [present |-> TRUE]}

\* The credential mappings a provider may return: each alias absent, empty, or
\* holding a key.
AliasValues ==
    [api_key |-> {<<>>, <<"k","1">>}, API_KEY |-> {<<>>, <<"k","2">>}, apiKey |-> {<<>>, <<"k","3">>}]
CredentialMappings ==
    UNION {[names -> {<<>>, <<"k","1">>, <<"k","2">>, <<"k","3">>}] : names \in SUBSET {"api_key", "API_KEY", "apiKey"}}
ProviderCredentials ==
    {c \in CredentialMappings : \A name \in DOMAIN c : c[name] \in AliasValues[name]}

\* What get_credentials() does: returns a mapping, raises NotAuthorizedError, or
\* raises something else.
GetCredentialsOutcomes ==
    {[kind |-> "return", type |-> "", message |-> <<>>, credentials |-> c] :
        c \in ProviderCredentials}
    \cup {[kind |-> "raise", type |-> "NotAuthorizedError", message |-> <<"d","e","n","i","e","d">>,
           credentials |-> EmptyDict],
          [kind |-> "raise", type |-> "RuntimeError", message |-> <<"a","p","i"," ","k","e","y"," ","s","t","o","r","e"," ","o","f","f","l","i","n","e">>,
           credentials |-> EmptyDict]}

\* What authorize() does: returns a str, a dict (with url and/or message, or
\* neither), something else, or raises; or the provider has no callable authorize.
NotCalled == [kind |-> "not called", text |-> <<>>, url |-> None, message |-> None]
AuthorizeOutcomes ==
    {[kind |-> "str", text |-> <<"V","i","s","i","t"," ","t","h","e"," ","c","o","n","s","o","l","e">>, url |-> None, message |-> None],
     [kind |-> "dict", text |-> <<>>, url |-> Some(<<"h","t","t","p",":","/","/","a","u","t","h">>), message |-> None],
     [kind |-> "dict", text |-> <<>>, url |-> None, message |-> Some(<<"A","s","k"," ","y","o","u","r"," ","a","d","m","i","n">>)],
     [kind |-> "dict", text |-> <<>>, url |-> Some(<<"h","t","t","p",":","/","/","a","u","t","h">>),
      message |-> Some(<<"A","s","k"," ","y","o","u","r"," ","a","d","m","i","n">>)],
     [kind |-> "dict", text |-> <<>>, url |-> None, message |-> None],
     [kind |-> "other", text |-> <<>>, url |-> None, message |-> None],
     [kind |-> "raise", text |-> <<"a","u","t","h","o","r","i","z","e"," ","f","a","i","l","e","d">>, url |-> None, message |-> None],
     [kind |-> "absent", text |-> <<>>, url |-> None, message |-> None]}

\* ---------------------------------------------------------- serpapi_api_key

MsgNotConfigured == <<"I","n","t","e","g","r","a","t","i","o","n"," ","n","o","t"," ","c","o","n","f","i","g","u","r","e","d"," ","f","o","r"," ","S","e","r","p","A","p","i"," ","A","p","p","."," ","C","a","n","n","o","t"," ","r","e","t","r","i","e","v","e"," ","A","P","I"," ","k","e","y",".">>
MsgFailedToGet == <<"F","a","i","l","e","d"," ","t","o"," ","g","e","t"," ","S","e","r","p","A","p","i"," ","c","r","e","d","e","n","t","i","a","l","s",":"," ">>
MsgKeyMissing == <<"A","P","I"," ","k","e","y"," ","f","o","r"," ","S","e","r","p","A","p","i"," ","i","s"," ","m","i","s","s","i","n","g","."," ","P","l","e","a","s","e"," ","e","n","s","u","r","e"," ","i","t","'","s"," ","s","e","t"," ","i","n"," ","t","h","e"," ","s","t","o","r","e"," ","(","e",".","g",".",","," ","S","E","R","P","A","P","I","_","A","P","I","_","K","E","Y"," ","i","n"," ","c","r","e","d","e","n","t","i","a","l","s",")",".">>
MsgAuthorizeVia == <<"P","l","e","a","s","e"," ","a","u","t","h","o","r","i","z","e"," ","v","i","a",":"," ">>

\* api_key = credentials.get("api_key") or credentials.get("API_KEY") or credentials.get("apiKey")
ApiKeyOf(credentials) ==
    Or(Or(Get(credentials, "api_key"), Get(credentials, "API_KEY")), Get(credentials, "apiKey"))

\* The message without the url branch of lines 54-55.
ActionMessageWithoutUrl(auth) ==
    IF auth.kind = "str" THEN auth.text
    ELSE IF auth.kind = "dict" /\ auth.message # None THEN auth.message[1]
    ELSE MsgKeyMissing

\* The message of the missing-key error: authorize()'s answer when there is one.
ActionMessage(auth) ==
    IF auth.kind = "str" THEN auth.text
    ELSE IF auth.kind = "dict" /\ auth.url # None THEN MsgAuthorizeVia \o auth.url[1]
    ELSE IF auth.kind = "dict" /\ auth.message # None THEN auth.message[1]
    ELSE MsgKeyMissing

\* Line 25 without its test: the provider is used whether it is there or not.
IntegrationNeverMissing(integ) == FALSE

\* Line 25: if not self.integration
IntegrationMissing(integ) == ~integ.present

\* One read of the property with the cache unset: the outcome, the cache after it,
\* and whether get_credentials() was called.
FetchKey(integ, get, auth) ==
    IF IntegrationMissing(integ)
    THEN [outcome |-> NotAuthorizedError(MsgNotConfigured), cache |-> None, gets |-> 0]
    ELSE IF get.kind = "raise" /\ get.type = "NotAuthorizedError"
    THEN [outcome |-> NotAuthorizedError(get.message), cache |-> None, gets |-> 1]
    ELSE IF get.kind = "raise"
    THEN [outcome |-> NotAuthorizedError(MsgFailedToGet \o get.message),
          cache |-> None, gets |-> 1]
    ELSE LET api_key == ApiKeyOf(get.credentials) IN
         IF ~Truthy(api_key)
         THEN [outcome |-> NotAuthorizedError(ActionMessage(auth)),
               cache |-> None, gets |-> 1]
         ELSE [outcome |-> Return(api_key[1]), cache |-> api_key, gets |-> 1]

\* The getter without the test of line 24: the provider is asked on every read.
serpapi_api_key_refetch(cache, integ, get, auth) == FetchKey(integ, get, auth)

\* One read of the property.
serpapi_api_key(cache, integ, get, auth) ==
    IF cache = None THEN FetchKey(integ, get, auth)
    ELSE [outcome |-> Return(cache[1]), cache |-> cache, gets |-> 0]

\* Whether the getter reaches line 49, where it looks for self.integration.authorize.
ReachesAuthorize(get) == get.kind = "return" /\ ~Truthy(ApiKeyOf(get.credentials))

\* What the provider does during one read of the property, its answers drawn from
\* gets and auths: nothing is drawn for a call the getter does not make.
NoGet == [kind |-> "not called", type |-> "", message |-> <<>>, credentials |-> EmptyDict]
ProviderRuns(cache, integ, gets, auths) ==
    IF cache # None \/ ~integ.present THEN {[get |-> NoGet, authorize |-> NotCalled]}
    ELSE {run \in [get : gets, authorize : auths \cup {NotCalled}] :
            (run.authorize # NotCalled) <=> ReachesAuthorize(run.get)}

\* ---------------------------------------------------------------- search

\* Line 106 with the keywords of line 146 in their place.
body_keywords_of_line_146 ==
    <<<<"a","u","t","h","e","n","t","i","c","a","t","i","o","n">>, <<"a","p","i"," ","k","e","y">>, <<"u","n","a","u","t","h","o","r","i","z","e","d">>, <<"4","0","1">>, <<"f","o","r","b","i","d","d","e","n">>, <<"i","n","v","a","l","i","d"," ","k","e","y">>>>

\* Line 106: the keywords that make an error of the response body an
\* authorization error.
body_auth_error_keywords ==
    <<<<"i","n","v","a","l","i","d"," ","a","p","i"," ","k","e","y">>, <<"a","u","t","h","o","r","i","z","a","t","i","o","n"," ","f","a","i","l","e","d">>, <<"a","p","i"," ","k","e","y"," ","n","e","e","d","e","d">>, <<"f","o","r","b","i","d","d","e","n">>,
      <<"a","c","c","o","u","n","t"," ","d","i","s","a","b","l","e","d">>, <<"p","r","i","v","a","t","e"," ","a","p","i"," ","k","e","y"," ","i","s"," ","m","i","s","s","i","n","g">>>>

\* Line 146: the keywords that make any other exception an authorization error.
auth_error_keywords ==
    <<<<"a","u","t","h","e","n","t","i","c","a","t","i","o","n">>, <<"a","p","i"," ","k","e","y">>, <<"u","n","a","u","t","h","o","r","i","z","e","d">>, <<"4","0","1">>, <<"f","o","r","b","i","d","d","e","n">>, <<"i","n","v","a","l","i","d"," ","k","e","y">>>>

\* f"Title: {title}\nLink: {link}\nSnippet: {snippet}\n" of one entry.
FormatResult(entry) ==
    <<"T","i","t","l","e",":"," ">> \o GetOr(entry, "title", <<"N","o"," ","t","i","t","l","e">>)
    \o <<"\n","L","i","n","k",":"," ">> \o GetOr(entry, "link", <<"N","o"," ","l","i","n","k">>)
    \o <<"\n","S","n","i","p","p","e","t",":"," ">> \o GetOr(entry, "snippet", <<"N","o"," ","s","n","i","p","p","e","t">>) \o <<"\n">>

\* Lines 112-127: the response body without an error field.
FormatOrganic(data) ==
    IF data.organic_results # None
    THEN LET entries == data.organic_results[1]
             formatted_results == [i \in 1..Len(entries) |-> FormatResult(entries[i])]
         IN IF formatted_results # <<>> THEN Return(Join(<<"\n">>, formatted_results))
            ELSE Return(<<"N","o"," ","o","r","g","a","n","i","c"," ","r","e","s","u","l","t","s"," ","f","o","u","n","d",".">>)
    ELSE Return(<<"N","o"," ","o","r","g","a","n","i","c"," ","r","e","s","u","l","t","s"," ","f","o","u","n","d",".">>)

\* Lines 102-127: what the try block does with the response body.
ProcessData(data) ==
    IF data.error # None
    THEN LET error_message == data.error[1] IN
         IF AnyKeywordIn(body_auth_error_keywords, Lower(error_message))
         THEN NotAuthorizedError(<<"S","e","r","p","A","p","i"," ","E","r","r","o","r",":"," ">> \o error_message)
         ELSE Return(<<"S","e","r","p","A","p","i"," ","A","P","I"," ","E","r","r","o","r",":"," ">> \o error_message)
    ELSE FormatOrganic(data)

\* Lines 133-140: except httpx.HTTPStatusError.
HandleHTTPStatusError(status_code, text) ==
    IF status_code = 429
    THEN Return(<<"E","r","r","o","r",":"," ","R","a","t","e"," ","l","i","m","i","t"," ","e","x","c","e","e","d","e","d"," ","(","H","T","T","P"," ","4","2","9",")","."," ","P","l","e","a","s","e"," ","t","r","y"," ","a","g","a","i","n"," ","l","a","t","e","r",".">>)
    ELSE IF status_code = 401
    THEN NotAuthorizedError(<<"E","r","r","o","r",":"," ","I","n","v","a","l","i","d"," ","A","P","I"," ","k","e","y"," ","(","H","T","T","P"," ","4","0","1",")","."," ","P","l","e","a","s","e"," ","c","h","e","c","k"," ","y","o","u","r"," ","S","E","R","P","A","P","I","_","A","P","I","_","K","E","Y",".">>)
    ELSE Return(<<"H","T","T","P"," ","E","r","r","o","r",":"," ">> \o IntToText(status_code) \o <<" ","-"," ">> \o text)

\* Lines 142-149: except Exception.
HandleException(message) ==
    IF AnyKeywordIn(auth_error_keywords, Lower(message))
    THEN NotAuthorizedError(<<"S","e","r","p","A","p","i"," ","a","u","t","h","e","n","t","i","c","a","t","i","o","n","/","a","u","t","h","o","r","i","z","a","t","i","o","n"," ","f","a","i","l","e","d",":"," ">> \o message)
    ELSE Return(<<"A","n"," ","u","n","e","x","p","e","c","t","e","d"," ","e","r","r","o","r"," ","o","c","c","u","r","r","e","d"," ","d","u","r","i","n","g"," ","s","e","a","r","c","h",":"," ">> \o message)

\* The except clauses without the one of lines 129-131: an authorization error falls
\* to except Exception.
HandleSearchErrorWithoutAuthClause(e) ==
    IF e.type = "HTTPStatusError" THEN HandleHTTPStatusError(e.status_code, e.text)
    ELSE HandleException(e.message)

\* The except clauses without the one of lines 133-140: an HTTP status error falls
\* to except Exception.
HandleSearchErrorWithoutStatusClause(e) ==
    IF e.type = "NotAuthorizedError" THEN Raise(e.type, e.message)
    ELSE HandleException(e.message)

\* Lines 129-149: the except clauses, in their order, on an exception raised in the
\* try block.
HandleSearchError(e) ==
    IF e.type = "NotAuthorizedError" THEN Raise(e.type, e.message)
    ELSE IF e.type = "HTTPStatusError" THEN HandleHTTPStatusError(e.status_code, e.text)
    ELSE HandleException(e.message)

\* ------------------------------------------------------- the remote service

Exception(type, message, status_code, text) ==
    [kind |-> "raise", type |-> type, message |-> message, status_code |-> status_code,
     text |-> text, error |-> None, organic_results |-> None, body |-> <<>>]
Data(error, organic_results) ==
    [kind |-> "data", type |-> "", message |-> <<>>, status_code |-> 0, text |-> <<>>,
     error |-> error, organic_results |-> organic_results, body |-> <<>>]
Body(body) ==
    [kind |-> "body", type |-> "", message |-> <<>>, status_code |-> 0, text |-> <<>>,
     error |-> None, organic_results |-> None, body |-> body]
NoRemote ==
    [kind |-> "not called", type |-> "", message |-> <<>>, status_code |-> 0,
     text |-> <<>>, error |-> None, organic_results |-> None, body |-> <<>>]

\* The entries of organic_results: with every field, with a title only, with none.
ResultA == [title |-> <<"A">>, link |-> <<"h","t","t","p",":","/","/","a">>, snippet |-> <<"s">>]
OrganicEntries == {ResultA, [title |-> <<"B">>], EmptyDict}
OrganicResults == UNION {[1..n -> OrganicEntries] : n \in 0..MaxResults}

\* The error texts of a response body.
ErrorTexts ==
    {<<"I","n","v","a","l","i","d"," ","A","P","I"," ","k","e","y",".">>, <<"A","u","t","h","o","r","i","z","a","t","i","o","n"," ","f","a","i","l","e","d">>, <<"A","P","I"," ","k","e","y"," ","n","e","e","d","e","d">>, <<"F","O","R","B","I","D","D","E","N">>,
     <<"Y","o","u","r"," ","a","c","c","o","u","n","t"," ","d","i","s","a","b","l","e","d">>, <<"P","r","i","v","a","t","e"," ","A","P","I"," ","k","e","y"," ","i","s"," ","m","i","s","s","i","n","g">>, <<"M","i","s","s","i","n","g"," ","q"," ","p","a","r","a","m","e","t","e","r">>,
     <<"U","n","a","u","t","h","o","r","i","z","e","d">>, <<>>}

\* What get_dict() may give search: a body with an error field (and, possibly,
\* results beside it), a body without one, an HTTP status error, another exception.
SearchRemoteOutcomes ==
    {Data(Some(e), o) : e \in ErrorTexts, o \in {None, Some(<<ResultA>>)}}
    \cup {Data(None, o) : o \in {None} \cup {Some(rs) : rs \in OrganicResults}}
    \cup {Exception("HTTPStatusError", <<>>, c, <<"o","o","p","s">>) : c \in {401, 403, 429, 500}}
    \cup {Exception("Exception", m, 0, <<>>) :
            m \in {<<"A","u","t","h","e","n","t","i","c","a","t","i","o","n"," ","r","e","q","u","i","r","e","d">>, <<"b","a","d"," ","A","P","I"," ","k","e","y">>, <<"U","n","a","u","t","h","o","r","i","z","e","d">>,
                   <<"s","t","a","t","u","s"," ","4","0","1">>, <<"F","o","r","b","i","d","d","e","n">>, <<"i","n","v","a","l","i","d"," ","k","e","y">>, <<"a","c","c","o","u","n","t"," ","d","i","s","a","b","l","e","d">>,
                   <<"t","i","m","e","d"," ","o","u","t">>}}

\* One remote outcome of each kind, for the behaviours that follow the key.
SomeSearchRemoteOutcomes ==
    {Data(None, Some(<<ResultA>>)), Data(Some(<<"I","n","v","a","l","i","d"," ","A","P","I"," ","k","e","y",".">>), None),
     Data(Some(<<"M","i","s","s","i","n","g"," ","q"," ","p","a","r","a","m","e","t","e","r">>), None),
     Exception("HTTPStatusError", <<>>, 401, <<"o","o","p","s">>),
     Exception("HTTPStatusError", <<>>, 500, <<"o","o","p","s">>),
     Exception("Exception", <<"U","n","a","u","t","h","o","r","i","z","e","d">>, 0, <<>>),
     Exception("Exception", <<"t","i","m","e","d"," ","o","u","t">>, 0, <<>>)}

\* What _get() and _handle_response() may give a maps operation: the parsed body,
\* or an HTTP status error for a response that is not 2xx.
MapsRemoteOutcomes ==
    {Body(<<"{","p","l","a","c","e","s","}">>), Exception("HTTPStatusError", <<>>, 401, <<"o","o","p","s">>),
     Exception("HTTPStatusError", <<>>, 500, <<"o","o","p","s">>)}

\* The params a caller gives search.
SearchParams ==
    {None, Some(EmptyDict), Some([q |-> <<"C","o","f","f","e","e">>, engine |-> <<"g","o","o","g","l","e">>]),
     Some([q |-> <<"C","o","f","f","e","e">>, api_key |-> <<"c","a","l","l","e","r","-","k","e","y">>])}

\* ------------------------------------------------------------ the operations

\* What the provider and the remote service may answer: everything above, or one
\* answer of each kind for the behaviours that follow the key through several
\* operations.
Everything ==
    [gets |-> GetCredentialsOutcomes, auths |-> AuthorizeOutcomes,
     remotes |-> SearchRemoteOutcomes]
OneOfEach ==
    [gets |-> {g \in GetCredentialsOutcomes :
                 g.kind = "raise"
                 \/ g.credentials \in {EmptyDict, [api_key |-> <<"k","1">>], [API_KEY |-> <<"k","2">>],
                                       [api_key |-> <<>>, apiKey |-> <<"k","3">>]}},
     auths |-> {a \in AuthorizeOutcomes : a.kind \in {"str", "raise"}},
     remotes |-> SomeSearchRemoteOutcomes]
AnyResponse == [OneOfEach EXCEPT !.remotes = SearchRemoteOutcomes]

NoOutcome == [kind |-> "none", type |-> "", value |-> <<>>]
NoArgs == [params |-> None, q |-> <<>>, ll |-> None, data_id |-> <<>>, hl |-> None]
NoOperation ==
    [op |-> "none", args |-> NoArgs, cacheBefore |-> None, get |-> NoGet,
     authorize |-> NotCalled, resolve |-> NoOutcome, sent |-> FALSE,
     request |-> EmptyDict, remote |-> NoRemote, outcome |-> NoOutcome]

\* The state after an operation whose read of the property, the provider doing run,
\* gave r.
Finish(op, args, run, r, sent, request, remote, outcome) ==
    /\ _serpapi_api_key' = r.cache
    /\ resolveCalls' = resolveCalls + 1
    /\ resolveFailed' = resolveFailed + (IF r.outcome.kind = "raise" THEN 1 ELSE 0)
    /\ getCredCalls' = getCredCalls + r.gets
    /\ last' = [op |-> op, args |-> args, cacheBefore |-> _serpapi_api_key,
                get |-> run.get, authorize |-> run.authorize, resolve |-> r.outcome,
                sent |-> sent, request |-> request, remote |-> remote,
                outcome |-> outcome]
    /\ UNCHANGED <<integration, source, pc, local_api_key, result>>

\* A read of app.serpapi_api_key by the caller.
ReadKeyStep(env, bound) ==
    /\ resolveCalls < bound
    /\ \E run \in ProviderRuns(_serpapi_api_key, integration, env.gets, env.auths) :
        LET r == serpapi_api_key(_serpapi_api_key, integration, run.get, run.authorize)
        IN Finish("serpapi_api_key", NoArgs, run, r, FALSE, EmptyDict, NoRemote, r.outcome)

\* Lines 84-149: search(params), the remote service answering remote.
SearchOutcome(params, r, remote) ==
    LET request_params == IF params = None \/ params[1] = EmptyDict THEN EmptyDict
                          ELSE params[1]
    IN IF r.outcome.kind = "raise"
       THEN [sent |-> FALSE, request |-> EmptyDict,
             outcome |-> HandleSearchError([type |-> r.outcome.type,
                                            message |-> r.outcome.value])]
       ELSE [sent |-> TRUE,
             request |-> Merge([api_key |-> r.outcome.value, engine |-> <<"g","o","o","g","l","e","_","l","i","g","h","t">>],
                               request_params),
             outcome |-> IF remote.kind = "raise" THEN HandleSearchError(remote)
                         ELSE LET done == ProcessData(remote) IN
                              IF done.kind = "raise"
                              THEN HandleSearchError([type |-> done.type,
                                                      message |-> done.value])
                              ELSE done]

SearchStep(env, bound) ==
    /\ resolveCalls < bound
    /\ \E params \in SearchParams,
          run \in ProviderRuns(_serpapi_api_key, integration, env.gets, env.auths) :
        LET r == serpapi_api_key(_serpapi_api_key, integration, run.get, run.authorize)
        IN \E remote \in (IF r.outcome.kind = "raise" THEN {NoRemote} ELSE env.remotes) :
            LET s == SearchOutcome(params, r, remote)
            IN Finish("search", [NoArgs EXCEPT !.params = params], run, r, s.sent,
                      s.request, remote, s.outcome)

\* Lines 174-188 and 213-229: a maps operation that builds query_params from the
\* key read, the remote service answering remote.
MapsOutcome(query_params, r, remote) ==
    IF r.outcome.kind = "raise"
    THEN [sent |-> FALSE, request |-> EmptyDict, outcome |-> r.outcome]
    ELSE [sent |-> TRUE, request |-> query_params,
          outcome |-> IF remote.kind = "raise" THEN Raise(remote.type, remote.text)
                      ELSE Return(remote.body)]

\* Lines 174-182: the query of google_maps_search(q, ll).
MapsSearchParams(q, ll, api_key) ==
    LET query_params == [engine |-> <<"g","o","o","g","l","e","_","m","a","p","s">>, q |-> q, api_key |-> api_key]
    IN IF ll # None THEN Merge(query_params, [ll |-> ll[1]]) ELSE query_params

\* Lines 213-223 without the else of lines 222-223: no hl unless one is given.
MapsReviewsParamsWithoutDefault(data_id, hl, api_key) ==
    LET query_params ==
            [engine |-> <<"g","o","o","g","l","e","_","m","a","p","s","_","r","e","v","i","e","w","s">>, data_id |-> data_id, api_key |-> api_key]
    IN IF hl # None THEN Merge(query_params, [hl |-> hl[1]]) ELSE query_params

\* Lines 213-223: the query of get_google_maps_reviews(data_id, hl).
MapsReviewsParams(data_id, hl, api_key) ==
    LET query_params ==
            [engine |-> <<"g","o","o","g","l","e","_","m","a","p","s","_","r","e","v","i","e","w","s">>, data_id |-> data_id, api_key |-> api_key]
    IN IF hl # None THEN Merge(query_params, [hl |-> hl[1]])
       ELSE Merge(query_params, [hl |-> <<"e","n">>])

google_maps_search ==
    /\ resolveCalls < MaxOps
    /\ \E q \in {<<"C","o","f","f","e","e">>, <<>>}, ll \in {None, Some(<<"@","4","0",".","7",",","-","7","4",".","0",",","1","4","z">>), Some(<<>>)},
          run \in ProviderRuns(_serpapi_api_key, integration, OneOfEach.gets, OneOfEach.auths) :
        LET r == serpapi_api_key(_serpapi_api_key, integration, run.get, run.authorize)
        IN \E remote \in (IF r.outcome.kind = "raise" THEN {NoRemote}
                          ELSE MapsRemoteOutcomes) :
            LET m == MapsOutcome(MapsSearchParams(q, ll, r.outcome.value), r, remote)
            IN Finish("google_maps_search", [NoArgs EXCEPT !.q = q, !.ll = ll], run, r,
                      m.sent, m.request, remote, m.outcome)

get_google_maps_reviews ==
    /\ resolveCalls < MaxOps
    /\ \E data_id \in {<<"i","d","1","2","3">>}, hl \in {None, Some(<<"f","r">>), Some(<<>>)},
          run \in ProviderRuns(_serpapi_api_key, integration, OneOfEach.gets, OneOfEach.auths) :
        LET r == serpapi_api_key(_serpapi_api_key, integration, run.get, run.authorize)
        IN \E remote \in (IF r.outcome.kind = "raise" THEN {NoRemote}
                          ELSE MapsRemoteOutcomes) :
            LET m == MapsOutcome(MapsReviewsParams(data_id, hl, r.outcome.value), r, remote)
            IN Finish("get_google_maps_reviews",
                      [NoArgs EXCEPT !.data_id = data_id, !.hl = hl], run, r,
                      m.sent, m.request, remote, m.outcome)

\* The operations in the behaviours that follow the key through MaxOps operations.
ReadKey == ReadKeyStep(OneOfEach, MaxOps)
search == SearchStep(OneOfEach, MaxOps)

\* Reads of the key alone, over every answer of the provider.
read_any_credentials == ReadKeyStep(Everything, MaxReads)

\* search alone, over every remote outcome.
search_any_response == SearchStep(AnyResponse, MaxSearches)

\* Lines 13-16: a new SerpapiApp, with whatever integration it was given.
Init ==
    /\ integration \in Integrations
    /\ _serpapi_api_key = None
    /\ resolveCalls = 0
    /\ resolveFailed = 0
    /\ getCredCalls = 0
    /\ last = NoOperation
    /\ source = [get |-> NoGet, authorize |-> NotCalled]
    /\ pc = <<>>
    /\ local_api_key = <<>>
    /\ result = <<>>

Next == ReadKey \/ search \/ google_maps_search \/ get_google_maps_reviews

Spec == Init /\ [][Next]_vars

SpecResolve == Init /\ [][read_any_credentials]_vars

SpecSearch == Init /\ [][search_any_response]_vars

\* ------------------------------------------- concurrent reads of the property

\* The callers that read app.serpapi_api_key at the same time, each at its own
\* place in the getter: the test of line 24, the fetch of lines 25-60, the store of
\* line 62, the read of line 64.
Callers == 1..MaxCallers

\* Line 24: if self._serpapi_api_key is None; lines 25-29 when there is no provider.
Check(t) ==
    /\ pc[t] = "check"
    /\ IF _serpapi_api_key # None
       THEN pc' = [pc EXCEPT ![t] = "return"] /\ UNCHANGED result
       ELSE IF ~integration.present
       THEN /\ pc' = [pc EXCEPT ![t] = "done"]
            /\ result' = [result EXCEPT ![t] = FetchKey(integration, NoGet, NotCalled).outcome]
       ELSE pc' = [pc EXCEPT ![t] = "get_credentials"] /\ UNCHANGED result
    /\ UNCHANGED <<integration, _serpapi_api_key, resolveCalls, resolveFailed,
                   getCredCalls, last, source, local_api_key>>

\* Lines 31-60: the provider is asked, and the key looked up in its answer.
GetCredentials(t) ==
    /\ pc[t] = "get_credentials"
    /\ getCredCalls' = getCredCalls + 1
    /\ LET r == FetchKey(integration, source.get, source.authorize) IN
       IF r.outcome.kind = "raise"
       THEN /\ pc' = [pc EXCEPT ![t] = "done"]
            /\ result' = [result EXCEPT ![t] = r.outcome]
            /\ UNCHANGED local_api_key
       ELSE /\ pc' = [pc EXCEPT ![t] = "store"]
            /\ local_api_key' = [local_api_key EXCEPT ![t] = r.cache]
            /\ UNCHANGED result
    /\ UNCHANGED <<integration, _serpapi_api_key, resolveCalls, resolveFailed, last, source>>

\* Line 62 lost: the getter goes on to line 64 without storing the key.
StoreLost(t) ==
    /\ pc[t] = "store"
    /\ pc' = [pc EXCEPT ![t] = "return"]
    /\ UNCHANGED <<integration, _serpapi_api_key, resolveCalls, resolveFailed, getCredCalls,
                   last, source, local_api_key, result>>

\* Line 62: self._serpapi_api_key = api_key
Store(t) ==
    /\ pc[t] = "store"
    /\ _serpapi_api_key' = local_api_key[t]
    /\ pc' = [pc EXCEPT ![t] = "return"]
    /\ UNCHANGED <<integration, resolveCalls, resolveFailed, getCredCalls, last, source,
                   local_api_key, result>>

\* Line 64: return self._serpapi_api_key
ReturnKey(t) ==
    /\ pc[t] = "return"
    /\ result' = [result EXCEPT ![t] = [kind |-> "return", type |-> "",
                                        value |-> _serpapi_api_key]]
    /\ pc' = [pc EXCEPT ![t] = "done"]
    /\ UNCHANGED <<integration, _serpapi_api_key, resolveCalls, resolveFailed,
                   getCredCalls, last, source, local_api_key>>

\* A new adapter and a provider whose answer does not change.
InitConc ==
    /\ integration \in Integrations
    /\ _serpapi_api_key = None
    /\ resolveCalls = 0
    /\ resolveFailed = 0
    /\ getCredCalls = 0
    /\ last = NoOperation
    /\ source \in ProviderRuns(None, integration, GetCredentialsOutcomes, AuthorizeOutcomes)
    /\ pc = [t \in Callers |-> "check"]
    /\ local_api_key = [t \in Callers |-> None]
    /\ result = [t \in Callers |-> NoOutcome]

NextConc == \E t \in Callers : Check(t) \/ GetCredentials(t) \/ Store(t) \/ ReturnKey(t)

SpecConc == InitConc /\ [][NextConc]_vars

\* ------------------------------------------------------------------ claims

\* The aliases of the key, in the order the claims name them.
ClaimAliases == <<"api_key", "API_KEY", "apiKey">>

\* A credential mapping with no non-empty value under any alias.
HasNoKey(c) ==
    \A i \in 1..3 : ClaimAliases[i] \notin DOMAIN c \/ c[ClaimAliases[i]] = <<>>

\* The key found in a credential mapping that has one: the non-empty value under
\* the first alias that has one.
KeyFound(c) ==
    LET holds(i) == ClaimAliases[i] \in DOMAIN c /\ c[ClaimAliases[i]] # <<>>
        first == CHOOSE i \in 1..3 : holds(i) /\ \A j \in 1..(i - 1) : ~holds(j)
    IN c[ClaimAliases[first]]

ToolOperations == {"search", "google_maps_search", "get_google_maps_reviews"}

\* C1, as stated, on an adapter that has a provider: after two resolutions of the
\* key, get_credentials has been called exactly once.
C1_TwoResolutionsOneFetch ==
    (integration.present /\ resolveCalls = 2) => getCredCalls = 1

\* C1, amended: two or more resolutions of which the first succeeds make exactly
\* one call of get_credentials; on an adapter with a provider every failed
\* resolution makes one call of its own and all the successful ones share one; an
\* adapter without a provider makes none.
C1_MemoizedOnceResolved ==
    /\ (resolveCalls >= 2 /\ resolveFailed = 0) => getCredCalls = 1
    /\ integration.present =>
           getCredCalls = resolveFailed + (IF _serpapi_api_key # None THEN 1 ELSE 0)
    /\ ~integration.present => getCredCalls = 0

\* Two resolutions, the second through search, after one fetch.
C1_Witness ==
    /\ resolveCalls = 2 /\ resolveFailed = 0 /\ getCredCalls = 1
    /\ last.op = "search" /\ last.cacheBefore # None

\* C2: on an adapter without a provider every resolution of the key raises
\* NotAuthorizedError, whatever the operation and however often, the operation
\* raises it too, and get_credentials is never called.
C2_NoProviderAlwaysFails ==
    ~integration.present =>
        /\ getCredCalls = 0
        /\ resolveFailed = resolveCalls
        /\ _serpapi_api_key = None
        /\ last.op # "none" =>
            /\ last.resolve.kind = "raise" /\ last.resolve.type = "NotAuthorizedError"
            /\ last.outcome.kind = "raise" /\ last.outcome.type = "NotAuthorizedError"
            /\ last.get.kind = "not called"

\* A second failure in a row on an adapter without a provider, through search.
C2_Witness ==
    ~integration.present /\ resolveCalls >= 2 /\ last.op = "search"
    /\ last.outcome.kind = "raise"

\* The message C3 gives the missing-key error, by what authorize() did.
C3_Message(a) ==
    CASE a.kind = "str" -> a.text
      [] a.kind = "dict" /\ a.url # None -> <<"P","l","e","a","s","e"," ","a","u","t","h","o","r","i","z","e"," ","v","i","a",":"," ">> \o a.url[1]
      [] a.kind = "dict" /\ a.url = None /\ a.message # None -> a.message[1]
      [] OTHER -> <<"A","P","I"," ","k","e","y"," ","f","o","r"," ","S","e","r","p","A","p","i"," ","i","s"," ","m","i","s","s","i","n","g","."," ","P","l","e","a","s","e"," ","e","n","s","u","r","e"," ","i","t","'","s"," ","s","e","t"," ","i","n"," ","t","h","e"," ","s","t","o","r","e"," ","(","e",".","g",".",","," ","S","E","R","P","A","P","I","_","A","P","I","_","K","E","Y"," ","i","n"," ","c","r","e","d","e","n","t","i","a","l","s",")",".">>

\* C3: when the provider's mapping has no non-empty value under any alias, the
\* resolution raises NotAuthorizedError with authorize()'s answer as its message
\* (the str, the url after "Please authorize via: ", or the message), and with the
\* default message when authorize() raises or gives nothing usable; nothing is
\* cached.
C3_MissingKeyMessage ==
    (last.op # "none" /\ last.get.kind = "return" /\ HasNoKey(last.get.credentials)) =>
        /\ last.outcome = [kind |-> "raise", type |-> "NotAuthorizedError",
                           value |-> C3_Message(last.authorize)]
        /\ _serpapi_api_key = None

\* A mapping with empty values only, and an authorize() that raises.
C3_Witness ==
    /\ last.op = "serpapi_api_key" /\ last.get.kind = "return"
    /\ last.get.credentials = [api_key |-> <<>>, API_KEY |-> <<>>, apiKey |-> <<>>]
    /\ last.authorize.kind = "raise"
    /\ last.outcome.kind = "raise" /\ last.outcome.value # last.authorize.text

\* The keywords C4 names.
C4_Keywords ==
    <<<<"i","n","v","a","l","i","d"," ","a","p","i"," ","k","e","y">>, <<"a","u","t","h","o","r","i","z","a","t","i","o","n"," ","f","a","i","l","e","d">>, <<"a","p","i"," ","k","e","y"," ","n","e","e","d","e","d">>, <<"f","o","r","b","i","d","d","e","n">>,
      <<"a","c","c","o","u","n","t"," ","d","i","s","a","b","l","e","d">>, <<"p","r","i","v","a","t","e"," ","a","p","i"," ","k","e","y"," ","i","s"," ","m","i","s","s","i","n","g">>>>

\* C4: when the response body has an error field, search raises NotAuthorizedError
\* if the lower-cased error text contains one of C4's keywords, and otherwise
\* returns "SerpApi API Error: " followed by the error text, whatever
\* organic_results holds.
C4_BodyErrorDecides ==
    (last.op = "search" /\ last.remote.kind = "data" /\ last.remote.error # None) =>
        LET e == last.remote.error[1] IN
        /\ IF AnyKeywordIn(C4_Keywords, Lower(e))
           THEN last.outcome.kind = "raise" /\ last.outcome.type = "NotAuthorizedError"
           ELSE last.outcome = [kind |-> "return", type |-> "",
                                value |-> <<"S","e","r","p","A","p","i"," ","A","P","I"," ","E","r","r","o","r",":"," ">> \o e]
        /\ e = <<"I","n","v","a","l","i","d"," ","A","P","I"," ","k","e","y",".">> => last.outcome.kind = "raise"
        /\ e = <<"M","i","s","s","i","n","g"," ","q"," ","p","a","r","a","m","e","t","e","r">> =>
               last.outcome.value = <<"S","e","r","p","A","p","i"," ","A","P","I"," ","E","r","r","o","r",":"," ","M","i","s","s","i","n","g"," ","q"," ","p","a","r","a","m","e","t","e","r">>

\* An authorization error in a body that also holds results.
C4_Witness ==
    /\ last.op = "search" /\ last.remote.kind = "data"
    /\ last.remote.error = <<<<"F","O","R","B","I","D","D","E","N">>>> /\ last.remote.organic_results # <<>>
    /\ last.outcome.kind = "raise"

\* The keywords C5 names.
C5_Keywords ==
    <<<<"a","u","t","h","e","n","t","i","c","a","t","i","o","n">>, <<"a","p","i"," ","k","e","y">>, <<"u","n","a","u","t","h","o","r","i","z","e","d">>, <<"4","0","1">>, <<"f","o","r","b","i","d","d","e","n">>, <<"i","n","v","a","l","i","d"," ","k","e","y">>>>

C6_Block(entry) ==
    <<"T","i","t","l","e",":"," ">> \o (IF "title" \in DOMAIN entry THEN entry.title ELSE <<"N","o"," ","t","i","t","l","e">>) \o <<"\n">>
    \o <<"L","i","n","k",":"," ">> \o (IF "link" \in DOMAIN entry THEN entry.link ELSE <<"N","o"," ","l","i","n","k">>) \o <<"\n">>
    \o <<"S","n","i","p","p","e","t",":"," ">> \o (IF "snippet" \in DOMAIN entry THEN entry.snippet ELSE <<"N","o"," ","s","n","i","p","p","e","t">>)
    \o <<"\n">>

\* The blocks of a non-empty sequence of entries, in their order, a single newline
\* between two blocks.
RECURSIVE C6_Blocks(_)
C6_Blocks(entries) ==
    IF Len(entries) = 1 THEN C6_Block(entries[1])
    ELSE C6_Block(Head(entries)) \o <<"\n">> \o C6_Blocks(Tail(entries))

\* How many times part occurs in text.
Occurrences(text, part) ==
    Cardinality({i \in 0..(Len(text) - Len(part)) :
                    SubSeq(text, i + 1, i + Len(part)) = part})

\* C6: for a body without an error field search returns "No organic results found."
\* when organic_results is absent or empty, and otherwise one block per entry, in
\* the entries' order, joined by single newlines, a missing field replaced by its
\* default.
C6_OrganicResultsFormatted ==
    (last.op = "search" /\ last.remote.kind = "data" /\ last.remote.error = None) =>
        LET organic == last.remote.organic_results IN
        IF organic = None \/ organic[1] = <<>>
        THEN last.outcome = [kind |-> "return", type |-> "",
                             value |-> <<"N","o"," ","o","r","g","a","n","i","c"," ","r","e","s","u","l","t","s"," ","f","o","u","n","d",".">>]
        ELSE /\ last.outcome = [kind |-> "return", type |-> "",
                                value |-> C6_Blocks(organic[1])]
             /\ Occurrences(last.outcome.value, <<"T","i","t","l","e",":"," ">>) = Len(organic[1])
             /\ organic[1] = <<[title |-> <<"A">>, link |-> <<"h","t","t","p",":","/","/","a">>, snippet |-> <<"s">>]>> =>
                    last.outcome.value = <<"T","i","t","l","e",":"," ","A","\n","L","i","n","k",":"," ","h","t","t","p",":","/","/","a","\n","S","n","i","p","p","e","t",":"," ","s","\n">>

\* Two entries, the second without any field.
C6_Witness ==
    /\ last.op = "search" /\ last.remote.kind = "data" /\ last.remote.error = None
    /\ last.remote.organic_results # None
    /\ Len(last.remote.organic_results[1]) = 2
    /\ DOMAIN last.remote.organic_results[1][2] = {}
    /\ last.outcome.kind = "return"

\* C7: google_maps_search(q, ll) sends engine=google_maps, q, the resolved key as
\* api_key, and ll exactly when ll was supplied; get_google_maps_reviews(data_id, hl)
\* sends engine=google_maps_reviews, data_id, the resolved key as api_key, and hl,
\* "en" when none was supplied; and nothing else.
C7_MapsQueries ==
    /\ (last.op = "google_maps_search" /\ last.sent) =>
        /\ last.resolve.kind = "return"
        /\ last.request =
             IF last.args.ll = None
             THEN [engine |-> <<"g","o","o","g","l","e","_","m","a","p","s">>, q |-> last.args.q,
                   api_key |-> last.resolve.value]
             ELSE [engine |-> <<"g","o","o","g","l","e","_","m","a","p","s">>, q |-> last.args.q,
                   api_key |-> last.resolve.value, ll |-> last.args.ll[1]]
    /\ (last.op = "get_google_maps_reviews" /\ last.sent) =>
        /\ last.resolve.kind = "return"
        /\ last.request =
             [engine |-> <<"g","o","o","g","l","e","_","m","a","p","s","_","r","e","v","i","e","w","s">>, data_id |-> last.args.data_id,
              api_key |-> last.resolve.value,
              hl |-> IF last.args.hl = None THEN <<"e","n">> ELSE last.args.hl[1]]

\* Reviews asked for without hl.
C7_Witness ==
    /\ last.op = "get_google_maps_reviews" /\ last.sent /\ last.args.hl = None
    /\ last.request.hl = <<"e","n">>

\* C8: in search, google_maps_search and get_google_maps_reviews a failed
\* resolution of the key ends the operation with that same NotAuthorizedError, and
\* no request is sent; a request is sent only with a resolved key.
C8_KeyFailurePropagates ==
    /\ (last.op \in ToolOperations /\ last.resolve.kind = "raise") =>
        /\ last.resolve.type = "NotAuthorizedError"
        /\ last.outcome = last.resolve
        /\ ~last.sent /\ last.remote.kind = "not called"
    /\ last.sent => last.resolve.kind = "return"

\* search after a failed resolution whose message holds a keyword of line 146.
C8_Witness ==
    /\ last.op = "search" /\ last.resolve.kind = "raise"
    /\ Contains(Lower(last.resolve.value), <<"a","p","i"," ","k","e","y">>)
    /\ last.outcome.kind = "raise"

\* What C9 says of the cache over one operation: set, it stays as it is and the
\* provider is not asked; unset, the provider is asked, a failed resolution leaves
\* it unset and a successful one sets it to the key found in the credentials.
C9_CacheLaw ==
    last.op # "none" =>
        /\ last.cacheBefore # None =>
            /\ _serpapi_api_key = last.cacheBefore
            /\ last.get.kind = "not called"
            /\ last.resolve = [kind |-> "return", type |-> "", value |-> last.cacheBefore[1]]
        /\ (last.cacheBefore = None /\ integration.present) => last.get.kind # "not called"
        /\ (last.cacheBefore = None /\ last.resolve.kind = "raise") => _serpapi_api_key = None
        /\ (last.cacheBefore = None /\ last.resolve.kind = "return") =>
            /\ last.get.kind = "return"
            /\ _serpapi_api_key = <<KeyFound(last.get.credentials)>>

\* C9, as stated: the cache law, and every request carries the cached key.
C9_CachedKeyInEveryRequest ==
    /\ C9_CacheLaw
    /\ last.sent => last.request.api_key = _serpapi_api_key[1]

\* C9, amended: the cache law, and every request carries the cached key, except a
\* search whose params hold an api_key of the caller's, which carries that one.
C9_CachedKeyUnlessOverridden ==
    /\ C9_CacheLaw
    /\ last.sent =>
        last.request.api_key =
            IF /\ last.op = "search" /\ last.args.params # None
               /\ "api_key" \in DOMAIN last.args.params[1]
            THEN last.args.params[1].api_key
            ELSE _serpapi_api_key[1]

\* A failed resolution, a successful one, then a search the remote service rejects
\* with status 401: the key stays cached.
C9_Witness ==
    /\ resolveCalls = 3 /\ resolveFailed = 1 /\ last.op = "search"
    /\ last.cacheBefore # None /\ _serpapi_api_key = last.cacheBefore
    /\ last.remote.kind = "raise" /\ last.remote.status_code = 401
    /\ last.outcome.kind = "raise"

\* C10: with callers interleaved at will and a provider whose answer does not
\* change, every caller that finishes gets the key found in the credentials, the
\* cache holds nothing else, and holds it once any caller has stored; without a
\* key in the credentials every caller fails and nothing is cached.
C10_ConcurrentResolutionAgrees ==
    LET c == source.get.credentials
        hasKey == integration.present /\ source.get.kind = "return" /\ ~HasNoKey(c)
    IN /\ hasKey =>
            /\ _serpapi_api_key \in {None, <<KeyFound(c)>>}
            /\ \A t \in Callers : pc[t] \in {"return", "done"} =>
                    _serpapi_api_key = <<KeyFound(c)>>
            /\ \A t \in Callers : pc[t] = "done" =>
                    result[t] = [kind |-> "return", type |-> "", value |-> <<KeyFound(c)>>]
       /\ ~hasKey =>
            /\ _serpapi_api_key = None
            /\ \A t \in Callers : pc[t] = "done" =>
                    result[t].kind = "raise" /\ result[t].type = "NotAuthorizedError"
       /\ \A t, u \in Callers : (pc[t] = "done" /\ pc[u] = "done") => result[t] = result[u]

\* Every caller done, two of them having asked the provider, and a key found.
C10_Witness ==
    /\ \A t \in Callers : pc[t] = "done" /\ result[t].kind = "return"
    /\ getCredCalls >= 2
    /\ _serpapi_api_key # None
====
